---- MODULE Spec2Model ----
(***************************************************************************)
(* Renderer selection and surface lifecycle of src/src/lib.rs:             *)
(* WindowRenderer (Skulpin/Vulkan first, OpenGL fallback), GlRenderer's    *)
(* render target / surface bookkeeping and the RefCell borrows that guard  *)
(* paint and resize.                                                       *)
(*                                                                         *)
(* A u32 is modelled as the pair <<hi, lo>> of its 16-bit halves, an i32   *)
(* as <<hi, lo>> with hi in -32768..32767, so that the u32 -> i32          *)
(* conversions of resize keep their real width.                            *)
(***************************************************************************)
EXTENDS Integers, Sequences, FiniteSets, TLC

VARIABLES
    pc,                     \* "start" | "idle" | "callback" | "panicked"
    variant,                \* "None" | "Skulpin" | "Gl"
    built,                  \* renderer values constructed so far
    attempts,               \* calls of SkulpinRenderer::new / GlRenderer::new
    skulpinResult,          \* "none" | "Ok" | "Err" | "panic"
    diagnostics,            \* lines written by eprintln!
    winSize,                \* window().inner_size(), physical
    winScale,               \* window().scale_factor()
    redrawPending,          \* window().request_redraw() not yet delivered
    ctxSize,                \* size last given to windowed_context.resize
    backend_render_target,  \* GlRenderer.backend_render_target (dimensions)
    surface,                \* GlRenderer.surface: [dims, scale]
    surfaceBorrowed,        \* RefCell flag of GlRenderer.surface
    rendererBorrowed,       \* RefCell flag of SkulpinRenderer.renderer
    paintLog,               \* steps of the paint call in progress / last
    paintResult,            \* "none" | "Ok" | "Err_Gl" | "Err_Skulpin"
    canvasDims,             \* dimensions of the surface handed to callback
    lastResize,             \* dimensions of the last GL resize that returned
    lastEvent               \* the last call / window event and its outcome

vars == <<pc, variant, built, attempts, skulpinResult, diagnostics, winSize, winScale,
          redrawPending, ctxSize, backend_render_target, surface,
          surfaceBorrowed, rendererBorrowed, paintLog, paintResult,
          canvasDims, lastResize, lastEvent>>

----------------------------------------------------------------------------
(* Bounds *)
MaxDim == 2
MaxScale == 2

(* Widths of the machine integers *)
HalfMod == 65536
I32MaxHi == 32767

U32(hi, lo) == <<hi, lo>>
Size(w, h) == [width |-> w, height |-> h]
NoSize == Size(U32(0, 0), U32(0, 0))

SmallDims == {U32(0, lo) : lo \in 1..MaxDim}
\* logical sizes given to WindowRenderer::new
LogicalSizes == {Size(w, h) : w \in SmallDims, h \in SmallDims}
\* physical sizes a window can report
WindowSizes == LogicalSizes \cup {Size(U32(0, MaxDim * MaxScale), U32(0, 1))}
\* physical sizes a caller can pass to resize: PhysicalSize<u32>
I32Max == U32(I32MaxHi, HalfMod - 1)
I32MaxPlus1 == U32(I32MaxHi + 1, 0)
U32Max == U32(HalfMod - 1, HalfMod - 1)
PhysicalSizes ==
    WindowSizes \cup {Size(I32Max, I32Max), Size(I32MaxPlus1, U32(0, 1)),
                      Size(U32(0, 1), U32Max)}
ScaleFactors == 1..MaxScale

FitsI32(v) == v[1] >= 0 /\ v[1] <= I32MaxHi
SizeFits(size) == FitsI32(size.width) /\ FitsI32(size.height)

----------------------------------------------------------------------------
(* Pure helpers *)

\* `as i32`: the wrapping cast, what try_into is not
WrappingCastI32(v) ==
    [ok |-> TRUE,
     val |-> IF v[1] > I32MaxHi THEN <<v[1] - HalfMod, v[2]>> ELSE v]

\* u32 -> i32 by TryInto: Err when the value exceeds i32::MAX
TryIntoI32(v) ==
    IF v[1] <= I32MaxHi THEN [ok |-> TRUE, val |-> v]
                        ELSE [ok |-> FALSE, val |-> v]

\* LogicalSize<u32> -> PhysicalSize<u32> of the created window
ScaleU32(v, sf) ==
    LET lo == v[2] * sf
    IN  U32(v[1] * sf + (lo \div HalfMod), lo % HalfMod)
ToPhysical(size, sf) == Size(ScaleU32(size.width, sf), ScaleU32(size.height, sf))

NeverBorrowed(borrowed) == "ok"

\* RefCell::borrow_mut: panics when the cell is already borrowed
BorrowMut(borrowed) == IF borrowed THEN "panic" ELSE "ok"

\* Surface::from_backend_render_target: a fresh surface, identity matrix
SurfaceFromBackendRenderTarget(b) == [dims |-> b, scale |-> 1]

\* surface.canvas().scale((sf, sf)): concatenates onto the current matrix
CanvasScale(s, sf) == [s EXCEPT !.scale = @ * sf]

\* the surface GlRenderer::new installs
ConstructSurface(b, sf) == CanvasScale(SurfaceFromBackendRenderTarget(b), sf)

ResizeSurfaceScaled(b, sf) == ConstructSurface(b, sf)
ResizeSurfaceStale(b, sf) == surface

\* the surface GlRenderer::resize installs
ResizeSurface(b, sf) == SurfaceFromBackendRenderTarget(b)

EagerGl(skRet) == skRet \in {"ok", "err"}

\* unwrap_or_else: the GL closure runs only on Err
NeedsGlFallback(skRet) == skRet = "err"

SilentFallback(n) == n

\* eprintln! inside the fallback closure
EmitDiagnostic(n) == n + 1

\* map_err(PaintError::Skulpin) / map_err(PaintError::Gl)
PaintErrorTag(v) == IF v = "Skulpin" THEN "Err_Skulpin" ELSE "Err_Gl"

Event(op, size, ret, val) == [op |-> op, size |-> size, ret |-> ret, val |-> val]

Count(s, x) == Cardinality({i \in 1..Len(s) : s[i] = x})

----------------------------------------------------------------------------
Init ==
    /\ pc = "start"
    /\ variant = "None"
    /\ built = {}
    /\ attempts = [Skulpin |-> 0, Gl |-> 0]
    /\ skulpinResult = "none"
    /\ diagnostics = 0
    /\ winSize = NoSize
    /\ winScale = 1
    /\ redrawPending = FALSE
    /\ ctxSize = NoSize
    /\ backend_render_target = NoSize
    /\ surface = [dims |-> NoSize, scale |-> 1]
    /\ surfaceBorrowed = FALSE
    /\ rendererBorrowed = FALSE
    /\ paintLog = <<>>
    /\ paintResult = "none"
    /\ canvasDims = NoSize
    /\ lastResize = NoSize
    /\ lastEvent = Event("init", NoSize, "ok", 0)

----------------------------------------------------------------------------
(* WindowRenderer::new, with SkulpinRenderer::new and GlRenderer::new.      *)
(* vk is the outcome of the Vulkan attempt: "ok", "err" (the builder's      *)
(* CreateRendererError) or "panic" (window creation: expect).  glOk is the  *)
(* outcome of the unwraps of GL construction.                               *)
WindowRendererNew ==
    /\ pc = "start"
    /\ \E size \in LogicalSizes, sf \in ScaleFactors,
          vk \in {"ok", "err", "panic"}, glOk \in BOOLEAN :
        LET phys == ToPhysical(size, sf)
            w == TryIntoI32(phys.width)
            h == TryIntoI32(phys.height)
            fallback == NeedsGlFallback(vk)
            glPanics == fallback /\ (~glOk \/ ~w.ok \/ ~h.ok)
            glBuilt == fallback /\ ~glPanics
            panics == vk = "panic" \/ glPanics
            brt == Size(w.val, h.val)
        IN  /\ attempts' = [Skulpin |-> attempts.Skulpin + 1,
                            Gl |-> attempts.Gl + (IF fallback THEN 1 ELSE 0)]
            /\ skulpinResult' = IF vk = "ok" THEN "Ok"
                                ELSE IF vk = "err" THEN "Err" ELSE "panic"
            /\ diagnostics' = IF fallback THEN EmitDiagnostic(diagnostics)
                                          ELSE diagnostics
            /\ built' = (IF vk = "ok" THEN {"Skulpin"} ELSE {})
                          \cup (IF glBuilt THEN {"Gl"} ELSE {})
            /\ pc' = IF panics THEN "panicked" ELSE "idle"
            /\ variant' = IF panics THEN "None"
                          ELSE IF vk = "ok" THEN "Skulpin" ELSE "Gl"
            /\ IF panics
               THEN UNCHANGED <<winSize, winScale>>
               ELSE winSize' = phys /\ winScale' = sf
            /\ IF glBuilt
               THEN /\ ctxSize' = phys
                    /\ backend_render_target' = brt
                    /\ surface' = ConstructSurface(brt, sf)
               ELSE UNCHANGED <<ctxSize, backend_render_target, surface>>
            /\ lastEvent' = Event("new", size,
                                  IF panics THEN "panic" ELSE "ok", 0)
    /\ UNCHANGED <<redrawPending, surfaceBorrowed, rendererBorrowed,
                   paintLog, paintResult, canvasDims, lastResize>>

SkulpinArmResizeRedraw(size) ==
    /\ redrawPending' = TRUE
    /\ UNCHANGED <<pc, ctxSize, backend_render_target, surface, lastResize>>

\* WindowRenderer::resize, arm Self::Skulpin(_) => {}
SkulpinArmResize(size) ==
    UNCHANGED <<pc, redrawPending, ctxSize, backend_render_target, surface,
                lastResize>>

\* GlRenderer::resize; surfOk is the outcome of the unwrap of the new surface
GlRendererResize(size, surfOk) ==
    LET w == TryIntoI32(size.width)
        h == TryIntoI32(size.height)
        brt == Size(w.val, h.val)
    IN  /\ ctxSize' = size
        /\ IF ~w.ok \/ ~h.ok
           THEN /\ pc' = "panicked"
                /\ lastEvent' = Event("resize", size, "panic_try_into", 0)
                /\ UNCHANGED <<backend_render_target, surface, redrawPending,
                               lastResize>>
           ELSE /\ backend_render_target' = brt
                /\ IF ~surfOk
                   THEN /\ pc' = "panicked"
                        /\ lastEvent' =
                               Event("resize", size, "panic_unwrap", 0)
                        /\ UNCHANGED <<surface, redrawPending, lastResize>>
                   ELSE IF BorrowMut(surfaceBorrowed) = "panic"
                   THEN /\ pc' = "panicked"
                        /\ lastEvent' =
                               Event("resize", size, "panic_borrow", 0)
                        /\ UNCHANGED <<surface, redrawPending, lastResize>>
                   ELSE /\ surface' = ResizeSurface(brt, winScale)
                        /\ redrawPending' = TRUE
                        /\ lastResize' = size
                        /\ lastEvent' = Event("resize", size, "ok", 0)
                        /\ UNCHANGED pc

\* WindowRenderer::resize
WindowRendererResize ==
    /\ pc \in {"idle", "callback"}
    /\ \E size \in PhysicalSizes :
        IF variant = "Skulpin"
        THEN /\ SkulpinArmResize(size)
             /\ lastEvent' = Event("resize", size, "ok", 0)
        ELSE \E surfOk \in BOOLEAN : GlRendererResize(size, surfOk)
    /\ UNCHANGED <<variant, built, attempts, skulpinResult, diagnostics, winSize, winScale,
                   surfaceBorrowed, rendererBorrowed, paintLog, paintResult,
                   canvasDims>>

SkipCallback(log) == log

\* f(&mut canvas) / the closure handed to draw
InvokeCallback(log) == Append(log, "callback")

RetryPresent(v, ok) ==
    IF v = "Gl" THEN (IF ok THEN <<"flush", "swap">>
                            ELSE <<"flush", "swap", "swap">>)
    ELSE (IF ok THEN <<"present">> ELSE <<"present", "present">>)

\* canvas.flush(); swap_buffers()  /  the present of Renderer::draw
PresentSteps(v, ok) ==
    IF v = "Gl" THEN <<"flush", "swap">> ELSE <<"present">>

\* WindowRenderer::paint up to the invocation of the callback.
\* GL: surface.borrow_mut(), surface.canvas(), f(&mut canvas).
\* Skulpin: renderer.borrow_mut().draw(..): the frame is acquired or not.
WindowRendererPaint ==
    /\ pc \in {"idle", "callback"}
    /\ LET cell == IF variant = "Gl" THEN surfaceBorrowed
                                     ELSE rendererBorrowed
       IN
       IF BorrowMut(cell) = "panic"
       THEN /\ pc' = "panicked"
            /\ lastEvent' = Event("paint", NoSize, "panic_borrow", 0)
            /\ UNCHANGED <<surfaceBorrowed, rendererBorrowed, paintLog,
                           paintResult, canvasDims>>
       ELSE IF pc = "callback"
       THEN \* a second frame on a cell that is not borrowed
            /\ pc' = "nested_callback"
            /\ paintLog' = InvokeCallback(paintLog)
            /\ lastEvent' = Event("paint", NoSize, "nested", 0)
            /\ UNCHANGED <<surfaceBorrowed, rendererBorrowed, paintResult,
                           canvasDims>>
       ELSE IF variant = "Gl"
       THEN /\ surfaceBorrowed' = TRUE
            /\ paintLog' = InvokeCallback(<<>>)
            /\ canvasDims' = surface.dims
            /\ paintResult' = "none"
            /\ pc' = "callback"
            /\ lastEvent' = Event("paint", NoSize, "acquired", 0)
            /\ UNCHANGED rendererBorrowed
       ELSE \E acquired \in BOOLEAN :
            IF acquired
            THEN /\ rendererBorrowed' = TRUE
                 /\ paintLog' = InvokeCallback(<<>>)
                 /\ paintResult' = "none"
                 /\ pc' = "callback"
                 /\ lastEvent' = Event("paint", NoSize, "acquired", 0)
                 /\ UNCHANGED <<surfaceBorrowed, canvasDims>>
            ELSE /\ paintLog' = <<>>
                 /\ paintResult' \in {"Ok", PaintErrorTag(variant)}
                 /\ pc' = "idle"
                 /\ lastEvent' = Event("paint", NoSize, "not_acquired", 0)
                 /\ UNCHANGED <<surfaceBorrowed, rendererBorrowed,
                                canvasDims>>
    /\ UNCHANGED <<variant, built, attempts, skulpinResult, diagnostics, winSize, winScale,
                   redrawPending, ctxSize, backend_render_target, surface,
                   lastResize>>

\* the callback returns: flush and swap (GL) or present (Skulpin), the
\* borrow is dropped and paint returns
PaintReturn ==
    /\ pc = "callback"
    /\ \E ok \in BOOLEAN :
        /\ paintLog' = paintLog \o PresentSteps(variant, ok)
        /\ paintResult' = IF ok THEN "Ok" ELSE PaintErrorTag(variant)
        /\ lastEvent' = Event("paint_return", NoSize,
                              IF ok THEN "ok" ELSE "err", 0)
    /\ IF variant = "Gl"
       THEN surfaceBorrowed' = FALSE /\ UNCHANGED rendererBorrowed
       ELSE rendererBorrowed' = FALSE /\ UNCHANGED surfaceBorrowed
    /\ pc' = "idle"
    /\ UNCHANGED <<variant, built, attempts, skulpinResult, diagnostics, winSize, winScale,
                   redrawPending, ctxSize, backend_render_target, surface,
                   canvasDims, lastResize>>

\* request_repaint: window().request_redraw() on either variant
RequestRepaint ==
    /\ pc \in {"idle", "callback"}
    /\ redrawPending' = TRUE
    /\ lastEvent' = Event("request_repaint", NoSize, "ok", 0)
    /\ UNCHANGED <<pc, variant, built, attempts, skulpinResult, diagnostics, winSize,
                   winScale, ctxSize, backend_render_target, surface,
                   surfaceBorrowed, rendererBorrowed, paintLog, paintResult,
                   canvasDims, lastResize>>

\* scale_factor: window().scale_factor() on either variant
ScaleFactor ==
    /\ pc \in {"idle", "callback"}
    /\ lastEvent' = Event("scale_factor", NoSize, "ok", winScale)
    /\ UNCHANGED <<pc, variant, built, attempts, skulpinResult, diagnostics, winSize,
                   winScale, redrawPending, ctxSize, backend_render_target,
                   surface, surfaceBorrowed, rendererBorrowed, paintLog,
                   paintResult, canvasDims, lastResize>>

\* the host resizes the window / moves it to a monitor of another scale
WindowResized ==
    /\ pc \in {"idle", "callback"}
    /\ \E size \in WindowSizes :
        /\ winSize' = size
        /\ lastEvent' = Event("window_resized", size, "ok", 0)
    /\ UNCHANGED <<pc, variant, built, attempts, skulpinResult, diagnostics, winScale,
                   redrawPending, ctxSize, backend_render_target, surface,
                   surfaceBorrowed, rendererBorrowed, paintLog, paintResult,
                   canvasDims, lastResize>>

WindowScaleChanged ==
    /\ pc \in {"idle", "callback"}
    /\ \E sf \in ScaleFactors :
        /\ winScale' = sf
        /\ lastEvent' = Event("scale_changed", NoSize, "ok", sf)
    /\ UNCHANGED <<pc, variant, built, attempts, skulpinResult, diagnostics, winSize,
                   redrawPending, ctxSize, backend_render_target, surface,
                   surfaceBorrowed, rendererBorrowed, paintLog, paintResult,
                   canvasDims, lastResize>>

\* the event loop delivers RedrawRequested
RedrawDelivered ==
    /\ pc = "idle"
    /\ redrawPending
    /\ redrawPending' = FALSE
    /\ lastEvent' = Event("redraw_requested", NoSize, "ok", 0)
    /\ UNCHANGED <<pc, variant, built, attempts, skulpinResult, diagnostics, winSize,
                   winScale, ctxSize, backend_render_target, surface,
                   surfaceBorrowed, rendererBorrowed, paintLog, paintResult,
                   canvasDims, lastResize>>

Next ==
    \/ WindowRendererNew
    \/ WindowRendererResize
    \/ WindowRendererPaint
    \/ PaintReturn
    \/ RequestRepaint
    \/ ScaleFactor
    \/ WindowResized
    \/ WindowScaleChanged
    \/ RedrawDelivered

Spec == Init /\ [][Next]_vars

TypeOK ==
    /\ pc \in {"start", "idle", "callback", "panicked"}
    /\ variant \in {"None", "Skulpin", "Gl"}
    /\ built \subseteq {"Skulpin", "Gl"}
    /\ skulpinResult \in {"none", "Ok", "Err", "panic"}
    /\ diagnostics \in 0..1
    /\ surfaceBorrowed \in BOOLEAN /\ rendererBorrowed \in BOOLEAN
    /\ paintResult \in {"none", "Ok", "Err_Gl", "Err_Skulpin"}

----------------------------------------------------------------------------
(* Properties *)

NewReturned == pc # "start" /\ ~(lastEvent.op = "new" /\ lastEvent.ret = "panic")
GlLive == variant = "Gl" /\ pc \in {"idle", "callback"}
Callbacks == Count(paintLog, "callback")
NotLastEvent == <<pc, variant, built, attempts, skulpinResult, diagnostics,
                  winSize, winScale, redrawPending, ctxSize,
                  backend_render_target, surface, surfaceBorrowed,
                  rendererBorrowed, paintLog, paintResult, canvasDims,
                  lastResize>>

C3_PaintAfterResize ==
    (GlLive /\ lastResize # NoSize) =>
        /\ surface.dims = lastResize
        /\ pc = "callback" => canvasDims = lastResize

C3_Witness ==
    /\ variant = "Gl" /\ pc = "callback"
    /\ lastResize = Size(I32Max, I32Max)
    /\ canvasDims = lastResize
    /\ redrawPending

\* C4: a paint whose surface or frame was acquired has invoked its callback
\* exactly once; a paint that failed to acquire it (borrow panic, frame not
\* acquired) has not invoked it.
C4_CallbackOnce ==
    /\ [](/\ pc = "callback" => Callbacks = 1
          /\ lastEvent.op = "paint_return" => Callbacks = 1
          /\ (lastEvent.op = "paint" /\ lastEvent.ret = "not_acquired")
                => Callbacks = 0)
    /\ [][(lastEvent'.op = "paint" /\ lastEvent'.ret = "panic_borrow")
            => paintLog' = paintLog]_vars

C4_Witness ==
    /\ lastEvent.op = "paint_return"
    /\ variant = "Skulpin"
    /\ Callbacks = 1

\* C5: on the GL variant, in the states a paint can start from right after
\* construction or after a resize to the window's current size has
\* returned, render target and surface have the window's size and the
\* canvas scale equals the window's scale factor.
C5_ConsistentWithWindow ==
    (/\ variant = "Gl" /\ pc = "idle"
     /\ lastEvent.op \in {"new", "resize"} /\ lastEvent.ret = "ok"
     /\ ctxSize = winSize) =>
        /\ backend_render_target = winSize
        /\ surface.dims = winSize
        /\ backend_render_target = surface.dims
        /\ surface.scale = winScale

\* C6: a paint that returns after its callback has made exactly one
\* presentation attempt, after the callback (GL: flush, then one swap);
\* a failed presentation returns the error tagged with the chosen backend,
\* a successful one returns Ok.
C6_PresentOnce ==
    /\ lastEvent.op = "paint_return" =>
          /\ variant = "Gl" => paintLog = <<"callback", "flush", "swap">>
          /\ variant = "Skulpin" => paintLog = <<"callback", "present">>
          /\ lastEvent.ret = "err" =>
                paintResult = (IF variant = "Gl" THEN "Err_Gl"
                                                 ELSE "Err_Skulpin")
          /\ lastEvent.ret = "ok" => paintResult = "Ok"
    /\ paintResult = "Err_Gl" => variant = "Gl"
    /\ paintResult = "Err_Skulpin" => variant = "Skulpin"
    /\ Count(paintLog, "swap") + Count(paintLog, "present") <= 1

C6_Witness ==
    /\ lastEvent.op = "paint_return" /\ lastEvent.ret = "err"
    /\ paintResult = "Err_Gl"
    /\ Count(paintLog, "swap") = 1

\* C7: on the Vulkan variant a resize of any size returns without error and
\* changes nothing, the pending redraw included; no step changes the
\* variant once it is chosen.
C7_VulkanResizeNoOp ==
    [][/\ (variant = "Skulpin" /\ lastEvent'.op = "resize") =>
             /\ lastEvent'.ret = "ok"
             /\ NotLastEvent' = NotLastEvent
       /\ variant # "None" => variant' = variant]_vars

C7_Witness ==
    /\ variant = "Skulpin"
    /\ lastEvent = Event("resize", Size(I32MaxPlus1, U32(0, 1)), "ok", 0)
    /\ ~redrawPending

\* C8: GL construction leaves the canvas scaled by the window's scale
\* factor; a GL resize that returns leaves a surface of the new size with
\* the identity scale, whatever the scale factor, and a redraw requested.
C8_ScaleNotReappliedOnResize ==
    /\ (lastEvent.op = "new" /\ variant = "Gl") => surface.scale = winScale
    /\ (lastEvent.op = "resize" /\ lastEvent.ret = "ok" /\ variant = "Gl") =>
          /\ surface.scale = 1
          /\ surface.dims = lastEvent.size
          /\ backend_render_target = lastEvent.size
          /\ redrawPending
    /\ (GlLive /\ lastResize # NoSize) => surface.scale = 1

C8_Witness ==
    /\ variant = "Gl"
    /\ lastEvent.op = "resize" /\ lastEvent.ret = "ok"
    /\ winScale = 2 /\ surface.scale = 1

\* C9: a GL resize whose width or height exceeds i32::MAX panics at the
\* conversion, leaving render target and surface as they were; no render
\* target or surface ever has a dimension outside 0..i32::MAX.
C9_OversizeResizePanics ==
    /\ [](SizeFits(backend_render_target) /\ SizeFits(surface.dims))
    /\ [][(variant = "Gl" /\ lastEvent'.op = "resize"
             /\ ~SizeFits(lastEvent'.size)) =>
            /\ pc' = "panicked"
            /\ lastEvent'.ret = "panic_try_into"
            /\ backend_render_target' = backend_render_target
            /\ surface' = surface]_vars

C9_Witness ==
    /\ variant = "Gl" /\ pc = "panicked"
    /\ lastEvent.op = "resize" /\ lastEvent.ret = "panic_try_into"
    /\ ~SizeFits(lastEvent.size)
    /\ SizeFits(backend_render_target)

\* C10: while the callback of a GL paint runs the surface is borrowed and is
\* not replaced; a resize or paint issued from inside the callback panics,
\* the resize at the borrow check only after the context was resized and
\* the render target replaced.
C10_SurfaceHeldDuringPaint ==
    [][(variant = "Gl" /\ pc = "callback") =>
          /\ surfaceBorrowed
          /\ surface' = surface
          /\ lastEvent'.op \in {"resize", "paint"} => pc' = "panicked"
          /\ lastEvent'.op = "paint" => lastEvent'.ret = "panic_borrow"
          /\ (lastEvent'.op = "resize" /\ lastEvent'.ret = "panic_borrow") =>
                /\ ctxSize' = lastEvent'.size
                /\ backend_render_target' = lastEvent'.size]_vars

C10_Witness ==
    /\ variant = "Gl" /\ pc = "panicked"
    /\ lastEvent.op = "resize" /\ lastEvent.ret = "panic_borrow"
    /\ backend_render_target # surface.dims
    /\ surfaceBorrowed
====
